---- MODULE Spec2Model ----
(***************************************************************************)
(* Model of code/examples/big_ae/run_lm_vae_pretraining_phdist_beta.py:    *)
(* the training loop of train(), the weight gate and mode derivation in    *)
(* its batch body, save_checkpoint() and the tail of main().               *)
(*                                                                         *)
(* Each followed process (one rank of the job) is a record proc[r] whose   *)
(* fields carry the local variables of train()/save_checkpoint() under     *)
(* their source names, plus a program counter pc.  The file system (dirs,  *)
(* files) is shared by the ranks.  Weights (floats in the source) are      *)
(* exact multiples of 1/WeightUnit: the integer w stands for w/WeightUnit, *)
(* so WeightUnit stands for the literal 1.0 of line 536.                   *)
(*                                                                         *)
(* Fields of proc[r] that are not variables of the source are history      *)
(* variables: consumed, leftover, resets, visited, fwd, grad_acc (the      *)
(* batches whose gradients the parameters hold), opt_batches,              *)
(* philly_logged, tb_logged, saves, attempts (encoder, decoder), wfails,   *)
(* mkdir_failed.  gpu_indices() and the start of main() have their own     *)
(* variables (topo, startup) and their own specifications.                 *)
(***************************************************************************)
EXTENDS Integers, Sequences, FiniteSets, TLC

\* ---------------------------------------------------------------- bounds
MaxAccum == 2
MaxEpochs == 2
MaxFiles == 3
MaxBatches == 2
MaxMaxSteps == 1
MaxInterval == 1
MaxSchedLen == 2
WeightUnit == 2
WorldSize == 2
MaxFail == 2
MaxGpus == 8
MaxLocalSize == 3
MaxLogInterval == 2

VARIABLES
    args,          \* the parsed command line (shared by every rank)
    num_files,     \* len(list(files.glob("*seq64*.json"))), line 457
    loader_len,    \* len(train_dataloader), lines 395 and 400
    beta_t_list,   \* the precomputed schedule, lines 487-494
    proc,          \* rank -> the process's local state
    dirs,          \* directories on the shared storage
    files,         \* files on the shared storage
    writers,       \* ranks that changed the shared storage
    fail_budget,   \* storage failures still to be injected
    topo,          \* one host: its GPUs and the calls of gpu_indices() on it
    startup,       \* main() from the parsed arguments to the device selection
    prior_run      \* what an earlier call of save_checkpoint has left

vars == <<args, num_files, loader_len, beta_t_list, proc, dirs, files, writers,
          fail_budget, topo, startup, prior_run>>

Kinds == {"encoder", "decoder", "full"}

\* ------------------------------------------------------- pure operators

\* mutant of IsCoordinator: the guard on the rank is dropped
IsCoordinatorAnyRank(r) == r \in {-1, 0} \/ r > 0

\* lines 292, 294, 356, 383, 612, 636: args.local_rank in [-1, 0], where
\* line 1038 has set args.local_rank = ompi_rank()
IsCoordinator(r) == r \in {-1, 0}

\* line 1207: args.local_rank == -1 or torch.distributed.get_rank() == 0
IsFinalSaver(r) == r = -1 \/ r = 0

\* mutant of FileLoopBound: range(num_files)
FileLoopBoundAllFiles == num_files

\* line 506: range(num_files - 1)
FileLoopBound == num_files - 1

\* mutant of Weight: the lookup runs one step ahead
WeightAhead(global_step) ==
    IF global_step + 1 >= Len(beta_t_list) THEN WeightUnit
    ELSE beta_t_list[global_step + 2]

\* lines 535-538: the weight looked up at global_step
Weight(global_step) ==
    IF global_step >= Len(beta_t_list) THEN WeightUnit
    ELSE beta_t_list[global_step + 1]

\* mutant of NextBetaT: without the schedule the configured beta is used
NextBetaTConfigured(beta_t, global_step) ==
    IF args.use_beta_schedule THEN Weight(global_step) ELSE args.beta

\* lines 534-538: beta_t keeps its previous value when the schedule is off
NextBetaT(beta_t, global_step) ==
    IF args.use_beta_schedule THEN Weight(global_step) ELSE beta_t

\* mutant of FbMode: the deterministic flag is tested first and overridden
FbModeFlagOverridden(beta_t) ==
    IF beta_t = 0 THEN 0 ELSE 1

\* lines 548-554
FbMode(beta_t) ==
    IF args.use_deterministic_connect THEN 2
    ELSE IF beta_t = 0 THEN 0 ELSE 1

\* mutant of IsAccumulationBoundary: step instead of step + 1
IsAccumulationBoundaryOffByOne(step) ==
    step % args.gradient_accumulation_steps = 0

\* line 595
IsAccumulationBoundary(step) ==
    (step + 1) % args.gradient_accumulation_steps = 0

\* lines 564-566: the progress lines (Steps, PROGRESS, EVALERR) of a batch;
\* the test on the rank is commented out (line 565)
PhillyLogDue(global_step) ==
    /\ args.use_philly
    /\ args.logging_steps > 0
    /\ global_step % args.logging_steps = 0

\* lines 611-615: the scalars written to tb_writer after an optimizer step
TbLogDue(r, global_step) ==
    /\ IsCoordinator(r)
    /\ args.logging_steps > 0
    /\ global_step % args.logging_steps = 0

\* mutant of SaveDue: the interval is not looked at
SaveDueAnyStep(r, global_step) ==
    /\ IsCoordinator(r)
    /\ args.save_steps > 0

\* lines 635-639
SaveDue(r, global_step) ==
    /\ IsCoordinator(r)
    /\ args.save_steps > 0
    /\ global_step % args.save_steps = 0

\* line 642
MaxStepsReached(global_step) ==
    args.max_steps > 0 /\ global_step > args.max_steps

\* lines 316, 323, 331, 338: the name of the arguments file of an artifact
ArgsFileName(kind) ==
    IF kind = "encoder" THEN "training_encoder_args.bin"
    ELSE IF args.use_philly THEN "training_decoder_args.bin"
    ELSE "training_encoder_args.bin"

\* lines 286-291, 353-355: os.path.join(args.output_dir, "checkpoint-<kind>-<step>")
Dir(kind, global_step) == <<kind, global_step>>

\* a file of a checkpoint directory; whole is false for what a write that
\* raised has left at the path; iter and beta are the fields of the composite
\* record of lines 345-351 (-1 in the other files); writes is a history field,
\* the number of times the path has been written
File(kind, global_step, name, iter, beta) ==
    [dir |-> Dir(kind, global_step), name |-> name, whole |-> TRUE,
     iter |-> iter, beta |-> beta, writes |-> 0]

Truncated(kind, global_step, name) ==
    [dir |-> Dir(kind, global_step), name |-> name, whole |-> FALSE,
     iter |-> -1, beta |-> -1, writes |-> 0]

\* the number of times a path has been written so far
Writes(dir, name) ==
    IF \E x \in files : x.dir = dir /\ x.name = name
    THEN (CHOOSE x \in files : x.dir = dir /\ x.name = name).writes
    ELSE 0

\* mutant of WriteFile: the write clears the other checkpoint directories
WriteFileRotating(f) ==
    {x \in files : x.dir = f.dir /\ x.name # f.name}
        \cup {[f EXCEPT !.writes = Writes(f.dir, f.name) + 1]}

\* writing a path replaces what the path held
WriteFile(f) ==
    {x \in files : ~(x.dir = f.dir /\ x.name = f.name)}
        \cup {[f EXCEPT !.writes = Writes(f.dir, f.name) + 1]}

Exists(kind, global_step, name) ==
    \E x \in files : x.dir = Dir(kind, global_step) /\ x.name = name /\ x.whole

\* an artifact is persisted when its directory holds all its files
Persisted(kind, global_step) ==
    IF kind = "full" THEN Exists(kind, global_step, "training.bin")
    ELSE /\ Exists(kind, global_step, "pytorch_model.bin")
         /\ Exists(kind, global_step, ArgsFileName(kind))

\* ------------------------------------------------------------ train()

\* the local state of a process entering train() from main(), line 1191
InitProc(pc0) ==
    [pc |-> pc0, err |-> "none",
     num_train_epochs |-> args.num_train_epochs,
     epoch |-> 0, idx_file |-> 0, step |-> 0, global_step |-> 0,
     beta_t |-> 0, model_beta |-> args.beta, fb_mode |-> 0, grad_acc |-> 0,
     consumed |-> 0, leftover |-> 0, resets |-> 0, visited |-> <<>>,
     fwd |-> [global_step |-> -1, beta |-> 0, fb_mode |-> 0],
     opt_batches |-> 0, philly_logged |-> FALSE, tb_logged |-> FALSE,
     saves |-> <<>>,
     save_step |-> 0, ret |-> "none",
     attempts |-> [k \in Kinds |-> 0], wfails |-> [k \in Kinds |-> 0],
     mkdir_failed |-> FALSE]

Set(r, rec) == proc' = [proc EXCEPT ![r] = rec]

FsUnchanged == UNCHANGED <<dirs, files, writers, fail_budget>>
ConfigUnchanged ==
    UNCHANGED <<args, num_files, loader_len, beta_t_list, topo, startup, prior_run>>

\* lines 391-397: with max_steps > 0 the epoch count is derived from it
EpochsFor(max_steps) ==
    max_steps \div (loader_len \div args.gradient_accumulation_steps) + 1

\* lines 383-503: everything train() does before its loops
TrainSetup(r) ==
    /\ proc[r].pc = "train_setup"
    /\ LET me == proc[r]
           zero == /\ args.max_steps > 0
                   /\ loader_len \div args.gradient_accumulation_steps = 0
       IN IF zero
          THEN Set(r, [me EXCEPT !.pc = "error", !.err = "ZeroDivisionError"])
          ELSE Set(r, [me EXCEPT
                   !.num_train_epochs =
                       IF args.max_steps > 0 THEN EpochsFor(args.max_steps) ELSE @,
                   !.global_step = 0,
                   !.grad_acc = 0,
                   !.beta_t = 0,
                   !.epoch = 0,
                   !.pc = "epoch_loop"])
    /\ FsUnchanged /\ ConfigUnchanged

\* lines 504-505: the head of the epoch loop, and the loader's reset
EpochLoop(r) ==
    /\ proc[r].pc = "epoch_loop"
    /\ LET me == proc[r]
       IN IF me.epoch < me.num_train_epochs
          THEN Set(r, [me EXCEPT !.resets = @ + 1, !.visited = <<>>,
                                 !.idx_file = 0, !.pc = "file_loop"])
          ELSE Set(r, [me EXCEPT !.pc = "train_return"])
    /\ FsUnchanged /\ ConfigUnchanged

\* lines 506-512: the head of the file loop; iter(train_dataloader) starts
\* the enumeration of the batches at step 0
FileLoop(r) ==
    /\ proc[r].pc = "file_loop"
    /\ LET me == proc[r]
       IN IF me.idx_file < FileLoopBound
          THEN Set(r, [me EXCEPT !.visited = Append(@, me.idx_file),
                                 !.step = 0, !.pc = "batch_loop"])
          ELSE Set(r, [me EXCEPT !.epoch = @ + 1, !.pc = "epoch_loop"])
    /\ FsUnchanged /\ ConfigUnchanged

\* lines 642-644 and the loop increments that follow them: break leaves the
\* batch loop only, so the file loop goes on with the next idx_file
AfterBatch(me) ==
    IF MaxStepsReached(me.global_step)
    THEN [me EXCEPT !.leftover = @ + ((me.step + 1) % args.gradient_accumulation_steps),
                    !.idx_file = @ + 1, !.pc = "file_loop"]
    ELSE [me EXCEPT !.step = @ + 1, !.pc = "batch_loop"]

\* lines 282-291: a call of save_checkpoint(model_vae, optimizer, global_step,
\* args) from train() (line 640) or from main() (line 1208)
CallSave(me, global_step, ret) ==
    [me EXCEPT !.save_step = global_step, !.ret = ret,
               !.saves = Append(@, [global_step |-> global_step, ret |-> ret]),
               !.attempts = [k \in Kinds |-> 0],
               !.wfails = [k \in Kinds |-> 0],
               !.pc = "mkdir_encoder"]

\* lines 512-644: one iteration of the batch loop, up to the call of
\* save_checkpoint when one is due
BatchBody(r) ==
    /\ proc[r].pc = "batch_loop"
    /\ proc[r].step < MaxBatches
    /\ LET me == proc[r]
           bt == NextBetaT(me.beta_t, me.global_step)
           mode == FbMode(bt)
           boundary == IsAccumulationBoundary(me.step)
           gs == IF boundary THEN me.global_step + 1 ELSE me.global_step
           after == [me EXCEPT
                       !.consumed = @ + 1,
                       !.beta_t = bt,
                       !.model_beta = bt,
                       !.fb_mode = mode,
                       !.fwd = [global_step |-> me.global_step, beta |-> bt,
                                fb_mode |-> mode],
                       !.grad_acc = IF boundary THEN 0 ELSE @ + 1,
                       !.opt_batches = IF boundary THEN me.grad_acc + 1 ELSE @,
                       !.philly_logged = PhillyLogDue(me.global_step),
                       !.tb_logged = boundary /\ TbLogDue(r, gs),
                       !.global_step = gs]
       IN IF boundary /\ SaveDue(r, gs)
          THEN Set(r, CallSave(after, gs, "train"))
          ELSE Set(r, AfterBatch(after))
    /\ FsUnchanged /\ ConfigUnchanged

\* line 512: the loader has no further batch for this file
LoaderExhausted(r) ==
    /\ proc[r].pc = "batch_loop"
    /\ LET me == proc[r]
       IN Set(r, [me EXCEPT
                !.leftover = @ + (me.step % args.gradient_accumulation_steps),
                !.idx_file = @ + 1, !.pc = "file_loop"])
    /\ FsUnchanged /\ ConfigUnchanged

\* lines 640-644: back from save_checkpoint in the batch body
AfterSave(r) ==
    /\ proc[r].pc = "train_after_save"
    /\ Set(r, AfterBatch(proc[r]))
    /\ FsUnchanged /\ ConfigUnchanged

\* line 650: tr_loss / global_step
TrainReturn(r) ==
    /\ proc[r].pc = "train_return"
    /\ LET me == proc[r]
       IN IF me.global_step = 0
          THEN Set(r, [me EXCEPT !.pc = "error", !.err = "ZeroDivisionError"])
          ELSE Set(r, [me EXCEPT !.pc = "main_final_save"])
    /\ FsUnchanged /\ ConfigUnchanged

\* lines 1207-1208
MainFinalSave(r) ==
    /\ proc[r].pc = "main_final_save"
    /\ LET me == proc[r]
       IN IF IsFinalSaver(r)
          THEN Set(r, CallSave(me, me.global_step, "main"))
          ELSE Set(r, [me EXCEPT !.pc = "done"])
    /\ FsUnchanged /\ ConfigUnchanged

\* ---------------------------------------------------- save_checkpoint()

\* the statement that follows a program point of save_checkpoint
NextPc(pc, ret) ==
    CASE pc = "mkdir_encoder" -> "mkdir_decoder"
      [] pc = "mkdir_decoder" -> "encoder_model"
      [] pc = "encoder_model" -> "encoder_args"
      [] pc = "encoder_args" -> "decoder_model"
      [] pc = "decoder_model" -> "decoder_args"
      [] pc = "decoder_args" -> "mkdir_full"
      [] pc = "mkdir_full" -> "full"
      [] pc = "full" -> IF ret = "train" THEN "train_after_save" ELSE "done"

\* the first statement of the try block (lines 313, 328, 364) of an artifact
TryStart(kind) == IF kind = "full" THEN "full" ELSE kind \o "_model"

\* lines 292-295, 356-357: os.makedirs of a checkpoint directory
MakedirsDue(r, kind) ==
    Dir(kind, proc[r].save_step) \notin dirs /\ IsCoordinator(r)

Makedirs(r, kind) ==
    /\ proc[r].pc = "mkdir_" \o kind
    /\ LET me == proc[r]
       IN /\ IF MakedirsDue(r, kind)
             THEN /\ dirs' = dirs \cup {Dir(kind, me.save_step)}
                  /\ writers' = writers \cup {r}
             ELSE UNCHANGED <<dirs, writers>>
          /\ Set(r, [me EXCEPT !.pc = NextPc(me.pc, me.ret)])
    /\ UNCHANGED <<files, fail_budget>> /\ ConfigUnchanged

\* lines 314, 322, 329, 337: save_pretrained(output_<kind>_dir); in resilient
\* mode this is where an attempt of the artifact begins
SaveModel(r, kind) ==
    /\ kind \in {"encoder", "decoder"}
    /\ proc[r].pc = kind \o "_model"
    /\ LET me == proc[r]
       IN /\ files' = WriteFile(File(kind, me.save_step, "pytorch_model.bin", -1, -1))
          /\ writers' = writers \cup {r}
          /\ Set(r, [me EXCEPT !.attempts[kind] = @ + 1,
                               !.pc = NextPc(me.pc, me.ret)])
    /\ UNCHANGED <<dirs, fail_budget>> /\ ConfigUnchanged

\* lines 315-317, 323, 330-332, 338: torch.save(args, <dir>/<args file>)
SaveArgs(r, kind) ==
    /\ kind \in {"encoder", "decoder"}
    /\ proc[r].pc = kind \o "_args"
    /\ LET me == proc[r]
       IN /\ files' = WriteFile(File(kind, me.save_step, ArgsFileName(kind), -1, -1))
          /\ writers' = writers \cup {r}
          /\ Set(r, [me EXCEPT !.pc = NextPc(me.pc, me.ret)])
    /\ UNCHANGED <<dirs, fail_budget>> /\ ConfigUnchanged

\* lines 345-351, 365-369, 373: the composite record, written as training.bin
SaveFull(r) ==
    /\ proc[r].pc = "full"
    /\ LET me == proc[r]
       IN /\ files' = WriteFile(File("full", me.save_step, "training.bin",
                                     me.save_step, me.model_beta))
          /\ writers' = writers \cup {r}
          /\ Set(r, [me EXCEPT !.attempts["full"] = @ + 1,
                               !.pc = NextPc(me.pc, me.ret)])
    /\ UNCHANGED <<dirs, fail_budget>> /\ ConfigUnchanged

\* the artifact a write statement belongs to
KindOf(pc) ==
    CASE pc \in {"encoder_model", "encoder_args"} -> "encoder"
      [] pc \in {"decoder_model", "decoder_args"} -> "decoder"
      [] pc = "full" -> "full"

WritePcs == {"encoder_model", "encoder_args", "decoder_model", "decoder_args", "full"}

\* mutant of AfterWriteFailure: the failure is fatal in resilient mode too
AfterWriteFailureFatal(me) ==
    [me EXCEPT !.wfails[KindOf(me.pc)] = @ + 1,
               !.attempts[KindOf(me.pc)] =
                   IF me.pc = TryStart(KindOf(me.pc)) THEN @ + 1 ELSE @,
               !.pc = "error", !.err = "OSError"]

\* mutant of AfterWriteFailure: the failure is retried in strict mode too
AfterWriteFailureRetried(me) ==
    [me EXCEPT !.wfails[KindOf(me.pc)] = @ + 1,
               !.attempts[KindOf(me.pc)] =
                   IF me.pc = TryStart(KindOf(me.pc)) THEN @ + 1 ELSE @,
               !.pc = TryStart(KindOf(me.pc))]

\* lines 312-320, 327-335, 363-371 (resilient: the bare except swallows the
\* failure and the while loop runs the try block again) and lines 322-323,
\* 337-338, 373 (strict: the failure leaves save_checkpoint)
AfterWriteFailure(me) ==
    LET kind == KindOf(me.pc)
        begun == [me EXCEPT !.wfails[kind] = @ + 1,
                            !.attempts[kind] = IF me.pc = TryStart(kind) THEN @ + 1 ELSE @]
    IN IF args.use_philly
       THEN [begun EXCEPT !.pc = TryStart(kind)]
       ELSE [begun EXCEPT !.pc = "error", !.err = "OSError"]

\* the file a write statement of save_checkpoint writes
TargetName(pc) ==
    CASE pc \in {"encoder_model", "decoder_model"} -> "pytorch_model.bin"
      [] pc \in {"encoder_args", "decoder_args"} -> ArgsFileName(KindOf(pc))
      [] pc = "full" -> "training.bin"

\* a storage write of save_checkpoint raises, before it has touched the path
\* or leaving a truncated file at it
WriteFails(r) ==
    /\ proc[r].pc \in WritePcs
    /\ fail_budget > 0
    /\ fail_budget' = fail_budget - 1
    /\ LET me == proc[r]
       IN \/ UNCHANGED <<files, writers>>
          \/ /\ files' = WriteFile(Truncated(KindOf(me.pc), me.save_step,
                                              TargetName(me.pc)))
             /\ writers' = writers \cup {r}
    /\ Set(r, AfterWriteFailure(proc[r]))
    /\ UNCHANGED dirs /\ ConfigUnchanged

\* lines 293, 295, 357: os.makedirs stands outside every try block
AfterMakedirsFailure(me) ==
    [me EXCEPT !.mkdir_failed = TRUE, !.pc = "error", !.err = "OSError"]

\* os.makedirs of save_checkpoint raises
MakedirsFails(r, kind) ==
    /\ proc[r].pc = "mkdir_" \o kind
    /\ MakedirsDue(r, kind)
    /\ fail_budget > 0
    /\ fail_budget' = fail_budget - 1
    /\ Set(r, AfterMakedirsFailure(proc[r]))
    /\ UNCHANGED <<dirs, files, writers>> /\ ConfigUnchanged

\* -------------------------------------------------------- gpu_indices()

\* mutant of RankInRange: local_rank = local_size passes
RankInRangeInclusive(local_rank, local_size) ==
    0 <= local_rank /\ local_rank <= local_size

\* line 194: 0 <= local_rank < local_size
RankInRange(local_rank, local_size) ==
    0 <= local_rank /\ local_rank < local_size

\* lines 198-200: gpu_count >= local_size > 0
EnoughGpus(gpu_count, local_size) ==
    gpu_count >= local_size /\ local_size > 0

\* mutant of ArangeInts: every rank's block starts at device 0
ArangeIntsFromZero(local_rank, gpu_count, local_size) ==
    LET len == (gpu_count + local_size - 1) \div local_size
    IN [i \in 1..len |-> ((i - 1) * local_size) \div local_size]

\* lines 202-203 and 213: ngpu = gpu_count / local_size is a true division
\* (line 22), so np.arange runs over floats from local_rank * ngpu up to,
\* excluding, (local_rank + 1) * ngpu in steps of 1: it has
\* ceil(stop - start) elements start + i, which int() truncates.  The floats
\* are the exact fractions start / local_size and stop / local_size.
ArangeInts(local_rank, gpu_count, local_size) ==
    LET start == local_rank * gpu_count
        stop == (local_rank + 1) * gpu_count
        len == (stop - start + local_size - 1) \div local_size
    IN [i \in 1..len |-> (start + (i - 1) * local_size) \div local_size]

\* mutant of ArraySplit: the larger blocks come last
ArraySplitLargerLast(gpu_count, local_size, local_rank) ==
    LET Neach == gpu_count \div local_size
        extras == gpu_count % local_size
        small == local_size - extras
        size == IF local_rank < small THEN Neach ELSE Neach + 1
        start == local_rank * Neach
                 + (IF local_rank < small THEN 0 ELSE local_rank - small)
    IN [i \in 1..size |-> start + i - 1]

\* lines 211 and 213: np.array_split(range(gpu_count), local_size)[local_rank];
\* the first gpu_count % local_size sections have one element more
ArraySplit(gpu_count, local_size, local_rank) ==
    LET Neach == gpu_count \div local_size
        extras == gpu_count % local_size
        size == IF local_rank < extras THEN Neach + 1 ELSE Neach
        start == local_rank * Neach
                 + (IF local_rank < extras THEN local_rank ELSE extras)
    IN [i \in 1..size |-> start + i - 1]

\* a call of gpu_indices that has not been made yet
NotCalled == [pc |-> "call", err |-> "none", ret_gpus |-> <<>>, warned |-> FALSE]

\* lines 187-214: gpu_indices(divisible) in a process whose environment
\* gives local_rank and local_size, on a host of gpu_count GPUs
GpuIndices(divisible, local_rank, local_size, gpu_count) ==
    IF ~RankInRange(local_rank, local_size)
       \/ ~EnoughGpus(gpu_count, local_size)
    THEN [NotCalled EXCEPT !.pc = "raised", !.err = "AssertionError"]
    ELSE [NotCalled EXCEPT
            !.pc = "returned",
            !.ret_gpus = IF divisible
                         THEN ArangeInts(local_rank, gpu_count, local_size)
                         ELSE ArraySplit(gpu_count, local_size, local_rank),
            !.warned = divisible /\ gpu_count % local_size # 0]

\* the process of local rank local_rank calls gpu_indices
GpuIndicesCall(local_rank) ==
    /\ topo.calls[local_rank].pc = "call"
    /\ topo' = [topo EXCEPT !.calls[local_rank] =
                   GpuIndices(topo.divisible, local_rank, topo.local_size,
                              topo.gpu_count)]
    /\ UNCHANGED <<args, num_files, loader_len, beta_t_list, proc, startup, prior_run>>
    /\ FsUnchanged

\* ------------------------------------------------- the start of main()

\* mutant of StartupError: the test on the evaluation file is dropped
StartupErrorNoEvalTest(st) ==
    IF st.decoder_model_type \in {"bert", "roberta"} /\ ~st.mlm THEN "ValueError"
    ELSE IF st.output_dir_populated /\ st.do_train /\ ~st.overwrite_output_dir
         THEN "ValueError"
    ELSE "none"

\* lines 986-1007: the three tests on the parsed arguments;
\* output_dir_populated stands for os.path.exists(args.output_dir) and
\* os.listdir(args.output_dir), eval_data_file = "None" for the default
StartupError(st) ==
    IF st.decoder_model_type \in {"bert", "roberta"} /\ ~st.mlm THEN "ValueError"
    ELSE IF st.eval_data_file = "None" /\ st.do_eval THEN "ValueError"
    ELSE IF st.output_dir_populated /\ st.do_train /\ ~st.overwrite_output_dir
         THEN "ValueError"
    ELSE "none"

StartupUnchanged ==
    UNCHANGED <<args, num_files, loader_len, beta_t_list, proc, prior_run>>

\* lines 654-983: the arguments are parsed; get_master_ip() (lines 961 and
\* 972) reads ~/mpi-hosts and ~/etc-hosts
MainParse ==
    /\ startup.pc = "parse"
    /\ startup' = IF startup.hosts_readable
                  THEN [startup EXCEPT !.pc = "validate"]
                  ELSE [startup EXCEPT !.pc = "error", !.err = "IOError"]
    /\ UNCHANGED topo /\ StartupUnchanged /\ FsUnchanged

\* lines 986-1007
MainValidate ==
    /\ startup.pc = "validate"
    /\ startup' = IF StartupError(startup) = "none"
                  THEN [startup EXCEPT !.pc = "init_process_group"]
                  ELSE [startup EXCEPT !.pc = "error", !.err = StartupError(startup)]
    /\ UNCHANGED topo /\ StartupUnchanged /\ FsUnchanged

\* lines 1020-1034
MainInitProcessGroup ==
    /\ startup.pc = "init_process_group"
    /\ startup' = [startup EXCEPT !.process_group = startup.distributed,
                                  !.pc = "gpu_indices"]
    /\ UNCHANGED topo /\ StartupUnchanged /\ FsUnchanged

\* lines 1036-1038: gpus = list(gpu_indices())
MainGpuIndices ==
    /\ startup.pc = "gpu_indices"
    /\ \E local_rank \in DOMAIN topo.calls :
          LET call == GpuIndices(TRUE, local_rank, topo.local_size, topo.gpu_count)
          IN /\ topo' = [topo EXCEPT !.calls[local_rank] = call]
             /\ startup' = IF call.pc = "raised"
                           THEN [startup EXCEPT !.pc = "error", !.err = call.err]
                           ELSE [startup EXCEPT !.gpus = call.ret_gpus,
                                                !.pc = "set_device"]
    /\ StartupUnchanged /\ FsUnchanged

\* lines 1039-1042: torch.cuda.set_device(gpus[0])
MainSetDevice ==
    /\ startup.pc = "set_device"
    /\ startup' = [startup EXCEPT !.device = startup.gpus[1], !.pc = "setup"]
    /\ UNCHANGED topo /\ StartupUnchanged /\ FsUnchanged

\* lines 1043-1198: the models and the data are set up, and train() is
\* called when --do_train is given
MainTrain ==
    /\ startup.pc = "setup"
    /\ startup' = [startup EXCEPT !.trained = startup.do_train, !.pc = "train"]
    /\ UNCHANGED topo /\ StartupUnchanged /\ FsUnchanged

\* ------------------------------------------------------- specifications

\* the arguments main() parses (lines 654-970) that the loops read
Args(g, max_steps, epochs, save_steps, logging_steps, philly, schedule, deterministic, beta) ==
    [gradient_accumulation_steps |-> g,
     max_steps |-> max_steps,
     num_train_epochs |-> epochs,
     save_steps |-> save_steps,
     logging_steps |-> logging_steps,
     use_philly |-> philly,
     use_beta_schedule |-> schedule,
     use_deterministic_connect |-> deterministic,
     beta |-> beta]

\* schedules of at most MaxSchedLen weights between start = 0 and stop
Schedules(stop) ==
    UNION {[1..n -> 0..stop] : n \in 0..MaxSchedLen}

Ranks == 0..(WorldSize - 1)

EmptyStorage ==
    /\ dirs = {}
    /\ files = {}
    /\ writers = {}

\* a specification that follows neither gpu_indices, nor the start of main(),
\* nor a second call of save_checkpoint
NoTopology ==
    topo = [divisible |-> TRUE, local_size |-> 1, gpu_count |-> 1, calls |-> <<>>]

NoStartup == startup = [pc |-> "train"]

NoPriorRun == prior_run = [taken |-> FALSE, names |-> {}]

TrainOnly == NoTopology /\ NoStartup /\ NoPriorRun

\* runs that vary the loop structure, the weight schedule being off
InitLoop ==
    /\ \E g \in 1..MaxAccum, max_steps \in {-1} \cup (1..MaxMaxSteps),
          save_steps \in 0..MaxInterval :
          \E epochs \in IF max_steps > 0 THEN {1} ELSE 1..MaxEpochs :
             args = Args(g, max_steps, epochs, save_steps, save_steps, FALSE,
                         FALSE, FALSE, WeightUnit)
    /\ num_files \in 1..MaxFiles
    /\ loader_len \in IF args.max_steps > 0 THEN 1..MaxBatches ELSE {MaxBatches}
    /\ beta_t_list = <<>>
    /\ \E r \in Ranks : proc = [x \in {r} |-> InitProc("train_setup")]

\* runs that vary the weight schedule and the flags of the mode gate
InitGate ==
    /\ \E g \in 1..MaxAccum, save_steps \in 0..MaxInterval, philly \in BOOLEAN,
          schedule \in BOOLEAN, deterministic \in BOOLEAN, beta \in 0..WeightUnit :
          args = Args(g, -1, 1, save_steps, save_steps, philly, schedule,
                      deterministic, beta)
    /\ num_files = 2
    /\ loader_len = MaxBatches
    /\ beta_t_list \in Schedules(args.beta)
    /\ proc = [x \in {0} |-> InitProc("train_setup")]

\* one process of a distributed job, from the call of train() at line 1191
\* to the end of main(), on storage that does not fail
Init ==
    /\ InitLoop \/ InitGate
    /\ EmptyStorage
    /\ fail_budget = 0
    /\ TrainOnly

Procs == DOMAIN proc

Next ==
    \/ \E r \in Procs : TrainSetup(r)
    \/ \E r \in Procs : EpochLoop(r)
    \/ \E r \in Procs : FileLoop(r)
    \/ \E r \in Procs : BatchBody(r)
    \/ \E r \in Procs : LoaderExhausted(r)
    \/ \E r \in Procs : AfterSave(r)
    \/ \E r \in Procs : TrainReturn(r)
    \/ \E r \in Procs : MainFinalSave(r)
    \/ \E r \in Procs, kind \in Kinds : Makedirs(r, kind)
    \/ \E r \in Procs, kind \in Kinds : SaveModel(r, kind)
    \/ \E r \in Procs, kind \in Kinds : SaveArgs(r, kind)
    \/ \E r \in Procs : SaveFull(r)

Spec == Init /\ [][Next]_vars

\* every rank of the job at once, interleaved, on storage that does not fail
InitRanks ==
    /\ \E save_steps \in 0..MaxInterval, philly \in BOOLEAN :
          args = Args(1, -1, 1, save_steps, save_steps, philly, FALSE, FALSE,
                      WeightUnit)
    /\ num_files = 2
    /\ loader_len = MaxBatches
    /\ beta_t_list = <<>>
    /\ proc = [x \in Ranks |-> InitProc("train_setup")]
    /\ EmptyStorage
    /\ fail_budget = 0
    /\ TrainOnly

SpecRanks == InitRanks /\ [][Next]_vars

\* one call of save_checkpoint on the coordinator, on storage that fails at
\* most MaxFail times; the directories of the step may exist already
InitSave ==
    /\ \E philly \in BOOLEAN :
          args = Args(1, -1, 1, 1, 1, philly, FALSE, FALSE, WeightUnit)
    /\ num_files = 2
    /\ loader_len = MaxBatches
    /\ beta_t_list = <<>>
    /\ \E s \in 1..MaxBatches :
          /\ proc = [x \in {0} |-> CallSave([InitProc("main_final_save") EXCEPT
                                                !.global_step = s], s, "main")]
          /\ dirs \in {{}, {Dir(k, s) : k \in Kinds}}
    /\ files = {}
    /\ writers = {}
    /\ fail_budget \in 0..MaxFail
    /\ TrainOnly

NextSave ==
    \/ \E r \in Procs, kind \in Kinds : Makedirs(r, kind)
    \/ \E r \in Procs, kind \in Kinds : SaveModel(r, kind)
    \/ \E r \in Procs, kind \in Kinds : SaveArgs(r, kind)
    \/ \E r \in Procs : SaveFull(r)
    \/ \E r \in Procs : WriteFails(r)
    \/ \E r \in Procs, kind \in Kinds : MakedirsFails(r, kind)

SpecSave == InitSave /\ [][NextSave]_vars

\* rank 0 and the last rank of a job whose logging and saving intervals vary,
\* two files of at most MaxBatches batches each being iterated, on storage
\* that does not fail
InitLog ==
    /\ \E g \in 1..MaxAccum, save_steps \in 0..MaxLogInterval,
          logging_steps \in 0..MaxLogInterval, philly \in BOOLEAN :
          args = Args(g, -1, 1, save_steps, logging_steps, philly, FALSE, FALSE,
                      WeightUnit)
    /\ num_files = 3
    /\ loader_len = MaxBatches
    /\ beta_t_list = <<>>
    /\ proc = [x \in {0, WorldSize - 1} |-> InitProc("train_setup")]
    /\ EmptyStorage
    /\ fail_budget = 0
    /\ TrainOnly

SpecLog == InitLog /\ [][Next]_vars

\* save_checkpoint runs in the single control thread of its process, which
\* goes on executing for as long as it has a statement to execute
SpecSaveFair == SpecSave /\ WF_vars(NextSave)

\* no training: the state of the other parts while gpu_indices or the start
\* of main() is followed
NoTraining ==
    /\ args = Args(1, -1, 1, 0, 0, FALSE, FALSE, FALSE, WeightUnit)
    /\ num_files = 1
    /\ loader_len = MaxBatches
    /\ beta_t_list = <<>>
    /\ proc = [x \in {0} |-> InitProc("done")]
    /\ EmptyStorage
    /\ fail_budget = 0

\* the processes of one host, each calling gpu_indices once; the environment
\* may give a process a local rank outside 0..local_size-1, and a local size
\* of 0; len(get_gpus()) is at least 1 (line 174: split yields one element)
InitGpu ==
    /\ NoTraining
    /\ \E divisible \in BOOLEAN, local_size \in 0..MaxLocalSize,
          gpu_count \in 1..MaxGpus :
          topo = [divisible |-> divisible, local_size |-> local_size,
                  gpu_count |-> gpu_count,
                  calls |-> [lr \in -1..MaxLocalSize |-> NotCalled]]
    /\ NoStartup
    /\ NoPriorRun

NextGpu == \E local_rank \in DOMAIN topo.calls : GpuIndicesCall(local_rank)

SpecGpu == InitGpu /\ [][NextGpu]_vars

\* one process from the parsing of its arguments to its call of train();
\* its environment gives a local rank that may be outside 0..local_size-1
InitMain ==
    /\ NoTraining
    /\ \E local_size \in 1..MaxLocalSize, gpu_count \in {1, MaxGpus} :
          \E local_rank \in 0..local_size :
             topo = [divisible |-> TRUE, local_size |-> local_size,
                     gpu_count |-> gpu_count,
                     calls |-> [lr \in {local_rank} |-> NotCalled]]
    /\ \E decoder_model_type \in {"gpt2", "bert", "roberta"},
          eval_data_file \in {"None", "dev.txt"},
          mlm \in BOOLEAN, do_eval \in BOOLEAN, do_train \in BOOLEAN,
          output_dir_populated \in BOOLEAN, overwrite_output_dir \in BOOLEAN,
          distributed \in BOOLEAN, hosts_readable \in BOOLEAN :
          startup = [pc |-> "parse", err |-> "none",
                     decoder_model_type |-> decoder_model_type,
                     mlm |-> mlm,
                     eval_data_file |-> eval_data_file,
                     do_eval |-> do_eval,
                     do_train |-> do_train,
                     output_dir_populated |-> output_dir_populated,
                     overwrite_output_dir |-> overwrite_output_dir,
                     distributed |-> distributed,
                     hosts_readable |-> hosts_readable,
                     process_group |-> FALSE,
                     gpus |-> <<>>,
                     device |-> -1,
                     trained |-> FALSE]
    /\ NoPriorRun

NextMain ==
    \/ MainParse
    \/ MainValidate
    \/ MainInitProcessGroup
    \/ MainGpuIndices
    \/ MainSetDevice
    \/ MainTrain

SpecMain == InitMain /\ [][NextMain]_vars

\* the names of the files that the checkpoint directories hold
Names == {<<f.dir, f.name>> : f \in {x \in files : x.whole}}

\* save_checkpoint has returned: what it has left is recorded, the files are
\* removed, and the same call is made again in the other mode
OtherMode(r) ==
    /\ proc[r].pc = "done"
    /\ ~prior_run.taken
    /\ prior_run' = [taken |-> TRUE, names |-> Names]
    /\ args' = [args EXCEPT !.use_philly = ~@]
    /\ files' = {}
    /\ Set(r, CallSave(proc[r], proc[r].save_step, proc[r].ret))
    /\ UNCHANGED <<num_files, loader_len, beta_t_list, dirs, writers,
                   fail_budget, topo, startup>>

\* the same call of save_checkpoint in one mode and then in the other, on
\* storage that does not fail
InitModes ==
    /\ \E philly \in BOOLEAN, beta \in 0..WeightUnit :
          args = Args(1, -1, 1, 1, 1, philly, FALSE, FALSE, beta)
    /\ num_files = 2
    /\ loader_len = MaxBatches
    /\ beta_t_list = <<>>
    /\ \E s \in 1..MaxBatches :
          /\ proc = [x \in {0} |-> CallSave([InitProc("main_final_save") EXCEPT
                                                !.global_step = s], s, "main")]
          /\ dirs \in {{}, {Dir(k, s) : k \in Kinds}}
    /\ files = {}
    /\ writers = {}
    /\ fail_budget = 0
    /\ NoTopology
    /\ NoStartup
    /\ NoPriorRun

NextModes ==
    \/ \E r \in Procs, kind \in Kinds : Makedirs(r, kind)
    \/ \E r \in Procs, kind \in Kinds : SaveModel(r, kind)
    \/ \E r \in Procs, kind \in Kinds : SaveArgs(r, kind)
    \/ \E r \in Procs : SaveFull(r)
    \/ \E r \in Procs : OtherMode(r)

SpecModes == InitModes /\ [][NextModes]_vars

\* ----------------------------------------------------------- the claims

\* the statements of train() between the call of save_checkpoint at line 640
\* and its return
SavePcs ==
    {"mkdir_encoder", "mkdir_decoder", "encoder_model", "encoder_args",
     "decoder_model", "decoder_args", "mkdir_full", "full"}

\* C1, as claimed: once max_steps > 0 and global_step has come to exceed
\* max_steps, no further batch is consumed, global_step (hence the number of
\* optimizer steps) no longer changes, and train() raises no error.
C1_StopsAtMaxSteps ==
    [][\A r \in Procs :
          MaxStepsReached(proc[r].global_step) =>
             /\ proc'[r].consumed = proc[r].consumed
             /\ proc'[r].global_step = proc[r].global_step
             /\ proc'[r].pc # "error"]_vars

\* C2, as claimed: with max_steps = -1, after n consumed batches
\* global_step = floor(n / g), whatever the number of batches per file.
C2_StepIsFloorOfBatches ==
    \A r \in Procs :
        args.max_steps = -1 =>
            proc[r].global_step =
                proc[r].consumed \div args.gradient_accumulation_steps

\* batches of the current file consumed since global_step last changed
Pending(r) ==
    IF proc[r].pc = "batch_loop"
    THEN proc[r].step % args.gradient_accumulation_steps
    ELSE 0

\* C2, amended: with max_steps = -1, global_step is incremented once per g
\* batches consumed within one file, the count starting again with each file:
\* n = g * global_step + (the batches left over at the end of the files
\* iterated so far) + (the batches of the current file since the last
\* increment).  So global_step = floor(n / g) as long as no file has left
\* batches over, and global_step <= floor(n / g) always.
C2_StepPerFileBatches ==
    \A r \in Procs :
        args.max_steps = -1 =>
            LET g == args.gradient_accumulation_steps
                me == proc[r]
            IN /\ me.consumed = g * me.global_step + me.leftover + Pending(r)
               /\ me.global_step <= me.consumed \div g
               /\ me.leftover = 0 => me.global_step = me.consumed \div g

\* C2, witness: g = 2, a batch was left over at a file end and an optimizer
\* step was taken, so that global_step is below floor(n / 2)
C2_Witness ==
    \E r \in Procs :
        /\ args.max_steps = -1
        /\ args.gradient_accumulation_steps = 2
        /\ proc[r].leftover >= 1
        /\ proc[r].global_step >= 1
        /\ proc[r].global_step < proc[r].consumed \div 2

\* C3: with max_steps = -1, in every epoch the loader is reset exactly once,
\* before the file loop, and the file loop visits exactly the indices
\* 0, 1, ..., num_files - 2 in increasing order; num_files - 1 is never visited.
C3_FileLoopVisits ==
    \A r \in Procs :
        args.max_steps = -1 =>
            LET me == proc[r]
                inEpoch == me.pc \in {"file_loop", "batch_loop", "train_after_save"}
                              \/ (me.pc \in SavePcs /\ me.ret = "train")
            IN /\ \A i \in 1..Len(me.visited) :
                     me.visited[i] = i - 1 /\ me.visited[i] <= num_files - 2
               /\ inEpoch => me.resets = me.epoch + 1
               /\ me.pc = "epoch_loop" => me.resets = me.epoch
               /\ (me.pc = "epoch_loop" /\ me.epoch >= 1) =>
                     Len(me.visited) = num_files - 1
               /\ me.pc = "batch_loop" =>
                     me.visited[Len(me.visited)] = me.idx_file

\* C3, witness: the second epoch has ended, over three files
C3_Witness ==
    \E r \in Procs :
        /\ args.max_steps = -1
        /\ num_files = 3
        /\ proc[r].pc = "epoch_loop"
        /\ proc[r].epoch = 2
        /\ proc[r].resets = 2
        /\ proc[r].visited = <<0, 1>>

\* C4, as claimed: with the schedule enabled, the weight applied at a forward
\* pass taken at global_step = s is beta_t_list[s] when s < L and the
\* configured stop value (args.beta, line 490) when s >= L.
C4_WeightSaturatesAtStop ==
    \A r \in Procs :
        (args.use_beta_schedule /\ proc[r].fwd.global_step >= 0) =>
            LET s == proc[r].fwd.global_step
            IN proc[r].fwd.beta =
                  IF s < Len(beta_t_list) THEN beta_t_list[s + 1] ELSE args.beta

\* C5: at every forward call the mode the model holds is derived from the
\* weight pushed for that same call: Deterministic (2) if the flag is set,
\* else Disabled (0) if the weight is 0, else FreeBit (1).
C5_ModeFromWeight ==
    \A r \in Procs :
        proc[r].fwd.global_step >= 0 =>
            LET f == proc[r].fwd
            IN /\ f.fb_mode = IF args.use_deterministic_connect THEN 2
                              ELSE IF f.beta = 0 THEN 0 ELSE 1
               /\ f.beta = proc[r].model_beta
               /\ f.fb_mode = proc[r].fb_mode
               /\ args.use_beta_schedule => f.beta = Weight(f.global_step)

\* C5, witness: a forward call at global_step 1 in FreeBit mode, the call
\* before it (global_step 0, weight 0) having left the mode Disabled
C5_Witness ==
    \E r \in Procs :
        /\ args.use_beta_schedule
        /\ ~args.use_deterministic_connect
        /\ Len(beta_t_list) >= 1
        /\ beta_t_list[1] = 0
        /\ proc[r].fwd.global_step = 1
        /\ proc[r].fwd.beta > 0
        /\ proc[r].fwd.fb_mode = 1

\* C6: with more than one rank, interleaved in any way, only global rank 0
\* creates a checkpoint directory or writes a checkpoint file, in the
\* periodic saves of train() and in the final save of main(); no other rank
\* enters save_checkpoint at all.
C6_OnlyRankZeroWrites ==
    /\ writers \subseteq {0}
    /\ \A r \in Procs : r # 0 => proc[r].pc \notin SavePcs

\* C6, witness: rank 1 has gone through train() and main() to the end while
\* rank 0 created the three directories of step 1 and wrote into them
C6_Witness ==
    /\ WorldSize > 1
    /\ proc[1].pc = "done"
    /\ proc[1].global_step >= 1
    /\ writers = {0}
    /\ \A k \in Kinds : Dir(k, 1) \in dirs /\ Persisted(k, 1)

\* the artifacts that come after an artifact in the order of save_checkpoint
Later(kind) ==
    CASE kind = "encoder" -> {"decoder", "full"}
      [] kind = "decoder" -> {"full"}
      [] kind = "full" -> {}

\* the directory of an artifact holds no file
Untouched(kind, global_step) ==
    \A x \in files : x.dir # Dir(kind, global_step)

\* the call of save_checkpoint has ended, by a return or by an error
SaveEnded(r) == proc[r].pc \in {"done", "error"}

\* C7: in resilient mode, when the writes of an artifact fail N times and then
\* succeed, save_checkpoint makes N + 1 attempts for that artifact, no write
\* failure ever leaves save_checkpoint, and the call comes to its end with the
\* three artifacts written (the one other way for it to end is a failure of
\* os.makedirs, which is no write of an artifact).
C7_ResilientRetries ==
    /\ [](\A r \in Procs :
            args.use_philly =>
               /\ proc[r].pc = "error" => proc[r].mkdir_failed
               /\ proc[r].pc = "done" =>
                     \A k \in Kinds :
                        /\ proc[r].attempts[k] = proc[r].wfails[k] + 1
                        /\ Persisted(k, proc[r].save_step))
    /\ <>(\A r \in Procs :
             args.use_philly => (proc[r].pc = "done" \/ proc[r].mkdir_failed))

\* C7, witness: resilient mode, the write of the full record failed twice and
\* the third attempt succeeded
C7_Witness ==
    \E r \in Procs :
        /\ args.use_philly
        /\ proc[r].pc = "done"
        /\ proc[r].wfails["full"] = 2
        /\ proc[r].attempts["full"] = 3
        /\ \A k \in Kinds : Persisted(k, proc[r].save_step)

\* C8: in strict mode every artifact is attempted at most once; the first
\* write failure leaves save_checkpoint as an error, nothing is retried, and
\* no artifact later in the order encoder, decoder, full is written.
C8_StrictFailsFast ==
    \A r \in Procs :
        ~args.use_philly =>
            /\ \A k \in Kinds :
                  /\ proc[r].attempts[k] <= 1
                  /\ proc[r].wfails[k] <= 1
                  /\ proc[r].wfails[k] = 1 =>
                        /\ proc[r].pc = "error"
                        /\ ~Persisted(k, proc[r].save_step)
                        /\ \A j \in Later(k) :
                              /\ proc[r].attempts[j] = 0
                              /\ Untouched(j, proc[r].save_step)
            /\ proc[r].pc = "done" =>
                  \A k \in Kinds : proc[r].attempts[k] = 1 /\ proc[r].wfails[k] = 0

\* C8, witness: strict mode, the encoder is written, the write of the decoder
\* failed and ended the call, the full record was never attempted
C8_Witness ==
    \E r \in Procs :
        /\ ~args.use_philly
        /\ proc[r].pc = "error"
        /\ proc[r].wfails["decoder"] = 1
        /\ Persisted("encoder", proc[r].save_step)
        /\ Untouched("full", proc[r].save_step)
        /\ fail_budget > 0

\* C9, as claimed: in resilient mode no storage failure of the save (creating
\* a directory included) leaves save_checkpoint as an error.
C9_ResilientNeverRaises ==
    \A r \in Procs : args.use_philly => proc[r].pc # "error"

\* save_checkpoint has gone past the try block of an artifact
Completed(r, kind) ==
    /\ proc[r].attempts[kind] > proc[r].wfails[kind]
    /\ proc[r].pc \in SavePcs \cup {"done", "error"}
    /\ ~(proc[r].pc \in WritePcs /\ KindOf(proc[r].pc) = kind)

\* an artifact, once written, stays written whatever fails after it
NoUndo(r) ==
    \A k \in Kinds : Completed(r, k) => Persisted(k, proc[r].save_step)

\* at the end of the call, an artifact whose own writes did not fail is
\* persisted, whatever failed in the writes of the others
NoPrevent(r) ==
    (SaveEnded(r) /\ ~proc[r].mkdir_failed) =>
        \A k \in Kinds : proc[r].wfails[k] = 0 => Persisted(k, proc[r].save_step)

\* C10, as claimed: in both modes a failure while writing one artifact neither
\* undoes an artifact already written nor prevents the other artifacts of the
\* save point from being persisted.
C10_ArtifactsIndependent ==
    \A r \in Procs : NoUndo(r) /\ NoPrevent(r)

\* C10, amended: in both modes a failure while writing one artifact never
\* undoes an artifact already written.  In resilient mode it does not prevent
\* the other artifacts from being persisted: the write is retried and the call
\* goes on to them.  In strict mode it ends the call, so the artifacts later
\* in the order are not persisted.
C10_NoUndoAndResilientIndependent ==
    \A r \in Procs :
        /\ NoUndo(r)
        /\ args.use_philly => NoPrevent(r)
        /\ (~args.use_philly /\ SaveEnded(r)) =>
              \A k \in Kinds :
                 proc[r].wfails[k] > 0 =>
                    \A j \in Later(k) : ~Persisted(j, proc[r].save_step)

\* C10, witness: the encoder was written, then the decoder's write failed:
\* the encoder is still there; in resilient mode the call went on to the end
C10_Witness ==
    \E r \in Procs :
        /\ args.use_philly
        /\ proc[r].pc = "done"
        /\ proc[r].wfails["encoder"] = 0
        /\ proc[r].wfails["decoder"] >= 1
        /\ \A k \in Kinds : Persisted(k, proc[r].save_step)

\* ---------------------------------------------- the claims on gpu_indices

\* the local ranks of the host, and what a call has returned
LocalRanks == 0..(topo.local_size - 1)

Returned(local_rank) == topo.calls[local_rank].pc = "returned"

Called(local_rank) == topo.calls[local_rank].pc # "call"

GpusOf(local_rank) ==
    {topo.calls[local_rank].ret_gpus[i] :
        i \in 1..Len(topo.calls[local_rank].ret_gpus)}

AllReturned == \A lr \in LocalRanks : Returned(lr)

\* C11: in even-partition mode with gpu_count >= local_size > 0 and
\* gpu_count % local_size = 0, local rank r receives the contiguous block
\* [r*k, (r+1)*k) with k = gpu_count / local_size, and over the local ranks
\* 0..local_size-1 every device of 0..gpu_count-1 goes to exactly one rank.
C11_EvenPartitionDivisible ==
    (/\ topo.divisible
     /\ EnoughGpus(topo.gpu_count, topo.local_size)
     /\ topo.gpu_count % topo.local_size = 0) =>
        LET k == topo.gpu_count \div topo.local_size
        IN /\ \A lr \in LocalRanks :
                 Called(lr) =>
                    /\ Returned(lr)
                    /\ topo.calls[lr].ret_gpus = [i \in 1..k |-> lr * k + i - 1]
           /\ AllReturned =>
                 \A d \in 0..(topo.gpu_count - 1) :
                    Cardinality({lr \in LocalRanks : d \in GpusOf(lr)}) = 1

\* C11's case: a host of several ranks with several GPUs each, all served
C11_Witness ==
    /\ topo.divisible
    /\ topo.local_size >= 2
    /\ topo.gpu_count >= 2 * topo.local_size
    /\ topo.gpu_count % topo.local_size = 0
    /\ AllReturned

\* C12, as claimed: in even-partition mode with gpu_count >= local_size > 0
\* and gpu_count % local_size # 0, the call succeeds with a warning, every
\* local rank receives exactly floor(gpu_count / local_size) devices, and no
\* device goes to two different local ranks.
C12_EvenPartitionRemainder ==
    (/\ topo.divisible
     /\ EnoughGpus(topo.gpu_count, topo.local_size)
     /\ topo.gpu_count % topo.local_size # 0) =>
        /\ \A lr \in LocalRanks :
              Called(lr) =>
                 /\ Returned(lr)
                 /\ topo.calls[lr].warned
                 /\ Len(topo.calls[lr].ret_gpus)
                       = topo.gpu_count \div topo.local_size
        /\ \A lr1, lr2 \in LocalRanks :
              (Returned(lr1) /\ Returned(lr2) /\ lr1 # lr2) =>
                 GpusOf(lr1) \cap GpusOf(lr2) = {}

\* C13: in uneven-partition mode with gpu_count >= local_size > 0, the
\* devices are split in index order into local_size contiguous blocks, rank
\* r receiving block r; the sizes differ by at most 1, the larger blocks come
\* first, and the blocks cover every device exactly once.
C13_UnevenPartition ==
    (/\ ~topo.divisible
     /\ EnoughGpus(topo.gpu_count, topo.local_size)) =>
        LET got(lr) == topo.calls[lr].ret_gpus
        IN /\ \A lr \in LocalRanks :
                 Called(lr) =>
                    /\ Returned(lr)
                    /\ \A i \in 1..(Len(got(lr)) - 1) : got(lr)[i + 1] = got(lr)[i] + 1
           /\ \A lr1, lr2 \in LocalRanks :
                 (Returned(lr1) /\ Returned(lr2) /\ lr1 < lr2) =>
                    /\ Len(got(lr1)) - Len(got(lr2)) \in {0, 1}
                    /\ \A d1 \in GpusOf(lr1), d2 \in GpusOf(lr2) : d1 < d2
           /\ AllReturned =>
                 /\ \A d \in 0..(topo.gpu_count - 1) :
                       Cardinality({lr \in LocalRanks : d \in GpusOf(lr)}) = 1
                 /\ \A lr \in LocalRanks : GpusOf(lr) \subseteq 0..(topo.gpu_count - 1)
                 /\ (topo.gpu_count = 8 /\ topo.local_size = 3) =>
                       <<Len(got(0)), Len(got(1)), Len(got(2))>> = <<3, 3, 2>>

\* C13's case: 8 devices split over 3 ranks
C13_Witness ==
    /\ ~topo.divisible
    /\ topo.gpu_count = 8
    /\ topo.local_size = 3
    /\ AllReturned

\* C14: gpu_indices raises, and returns no list, whenever local_rank is
\* outside [0, local_size) or gpu_count < local_size; for every other input
\* it returns a non-empty list.
C14_PreconditionsOrNonEmpty ==
    \A lr \in DOMAIN topo.calls :
        Called(lr) =>
           IF lr < 0 \/ lr >= topo.local_size \/ topo.gpu_count < topo.local_size
           THEN /\ topo.calls[lr].pc = "raised"
                /\ topo.calls[lr].err = "AssertionError"
                /\ topo.calls[lr].ret_gpus = <<>>
           ELSE /\ Returned(lr)
                /\ Len(topo.calls[lr].ret_gpus) >= 1

\* C14's case: the two failing examples (local_rank = local_size = 2, and
\* one GPU for two processes) and a call that succeeds beside a failing one
C14_Witness ==
    \/ /\ topo.local_size = 2
       /\ topo.gpu_count >= 2
       /\ topo.calls[2].pc = "raised"
       /\ Returned(1)
    \/ /\ topo.local_size = 2
       /\ topo.gpu_count = 1
       /\ topo.calls[0].pc = "raised"

\* ------------------------------------------- the claims on the whole run

\* C15, as claimed: over a whole run the artifact triple of a step is
\* created once and never written again (no file of a checkpoint directory
\* is written a second time), and no step removes a directory or a file that
\* an earlier save has left.
C15_TripleWrittenOnce ==
    [][/\ \A f \in files' : f.writes <= 1
       /\ dirs \subseteq dirs'
       /\ \A f \in files : \E x \in files' : x.dir = f.dir /\ x.name = f.name]_vars

\* a batch body has run in this step, and has logged
PhillyLogs(r) ==
    proc'[r].consumed # proc[r].consumed /\ proc'[r].philly_logged

TbLogs(r) ==
    proc'[r].consumed # proc[r].consumed /\ proc'[r].tb_logged

\* save_checkpoint is called in this step
SaveCalled(r) == Len(proc'[r].saves) > Len(proc[r].saves)

\* the step has incremented global_step to a multiple of the interval, on
\* the coordinator rank
AfterIncrementOnInterval(r, interval) ==
    /\ proc'[r].global_step = proc[r].global_step + 1
    /\ interval > 0
    /\ proc'[r].global_step % interval = 0
    /\ IsCoordinator(r)

SavedSteps(r) == {proc[r].saves[i].global_step : i \in 1..Len(proc[r].saves)}

\* C16, as claimed: a metric-logging event or a checkpoint save happens only
\* in a step that increments global_step, only when the new global_step is a
\* multiple of the interval (logging_steps, respectively save_steps), and only
\* on the coordinator rank; at most one save is triggered per global_step.
C16_OnlyOnIntervalBoundaries ==
    [][\A r \in Procs :
          /\ (PhillyLogs(r) \/ TbLogs(r)) =>
                AfterIncrementOnInterval(r, args.logging_steps)
          /\ SaveCalled(r) =>
                /\ AfterIncrementOnInterval(r, args.save_steps)
                /\ proc'[r].global_step \notin SavedSteps(r)]_vars

\* C16, amended: the scalars of tb_writer and the saves of the training loop
\* happen only in a step that increments global_step, only when the new
\* global_step is a multiple of the interval, and only on the coordinator
\* rank, at most one such save per global_step.  With use_philly every rank
\* logs its progress lines in every batch whose global_step before the
\* increment is a multiple of logging_steps.  main() saves once more on rank
\* 0 after train() has returned, at the returned global_step, whatever the
\* interval and whether or not the loop has saved that step.
C16_LoopEventsOnIntervalBoundaries ==
    [][\A r \in Procs :
          /\ TbLogs(r) => AfterIncrementOnInterval(r, args.logging_steps)
          /\ PhillyLogs(r) =>
                /\ args.use_philly
                /\ args.logging_steps > 0
                /\ proc[r].global_step % args.logging_steps = 0
          /\ SaveCalled(r) =>
                IF proc'[r].ret = "train"
                THEN /\ AfterIncrementOnInterval(r, args.save_steps)
                     /\ proc'[r].global_step \notin SavedSteps(r)
                ELSE /\ proc[r].pc = "main_final_save"
                     /\ IsFinalSaver(r)
                     /\ proc'[r].global_step = proc[r].global_step
                     /\ proc'[r].save_step = proc[r].global_step
                     /\ \A i \in 1..Len(proc[r].saves) :
                           proc[r].saves[i].ret = "train"]_vars

\* C16's cases: a rank other than the coordinator has logged its progress
\* lines in a batch that took global_step to a value that is not a multiple
\* of logging_steps, while rank 0 has saved in the loop at a multiple of
\* save_steps = 2 and again, from main(), at a global_step that is not one
C16_Witness ==
    /\ \E r \in Procs :
          /\ ~IsCoordinator(r)
          /\ proc[r].philly_logged
          /\ proc[r].global_step = proc[r].fwd.global_step + 1
          /\ proc[r].global_step % args.logging_steps # 0
    /\ \E r \in Procs :
          /\ args.save_steps = 2
          /\ Len(proc[r].saves) = 2
          /\ proc[r].saves[1] = [global_step |-> 2, ret |-> "train"]
          /\ proc[r].saves[2].ret = "main"
          /\ proc[r].saves[2].global_step % args.save_steps # 0

\* C17, as claimed: with max_steps = -1, whatever the epoch count, num_files,
\* the number of batches per file and gradient_accumulation_steps, exhausting
\* the loops is a normal termination: train() raises no error and returns a
\* result, also when no optimizer step was taken.
C17_ExhaustionIsNormal ==
    \A r \in Procs :
        args.max_steps = -1 =>
            /\ proc[r].pc # "error"
            /\ proc[r].pc \in {"main_final_save", "done"} \cup SavePcs =>
                  proc[r].err = "none"

\* --------------------------------------- the claims on the start of main()

\* nothing of the distributed initialisation, the topology resolution, the
\* device selection and the training has been done
NothingSetUp ==
    /\ startup.pc \in {"parse", "validate", "error"}
    /\ ~startup.process_group
    /\ startup.gpus = <<>>
    /\ \A lr \in DOMAIN topo.calls : ~Called(lr)
    /\ startup.device = -1
    /\ ~startup.trained

WrongDecoderObjective ==
    startup.decoder_model_type \in {"bert", "roberta"} /\ ~startup.mlm

NoEvalFile == startup.do_eval /\ startup.eval_data_file = "None"

\* C18, as claimed: each of the three startup conditions (decoder type
\* bert/roberta without the masked objective; evaluation requested without an
\* evaluation file; output directory existing and non-empty without the
\* overwrite flag) causes a fatal error, raised before the distributed
\* initialisation, the topology resolution, the device selection and any
\* training work.
C18_StartupConditionsFatal ==
    (\/ WrongDecoderObjective
     \/ NoEvalFile
     \/ startup.output_dir_populated /\ ~startup.overwrite_output_dir) =>
        /\ NothingSetUp
        /\ startup.pc \notin {"parse", "validate"} =>
              startup.pc = "error" /\ startup.err \in {"ValueError", "IOError"}

\* C18, amended: the third condition is fatal only when training is
\* requested (--do_train).  Each of the three conditions (decoder type
\* bert/roberta without the masked objective; evaluation requested without an
\* evaluation file; training requested with an output directory that exists
\* and is not empty, without the overwrite flag) causes a fatal error raised
\* before the distributed initialisation, the topology resolution, the
\* device selection and any training work; with none of them the validation
\* raises nothing.
C18_StartupConditionsFatalWhenTraining ==
    IF \/ WrongDecoderObjective
       \/ NoEvalFile
       \/ /\ startup.output_dir_populated
          /\ startup.do_train
          /\ ~startup.overwrite_output_dir
    THEN /\ NothingSetUp
         /\ startup.pc \notin {"parse", "validate"} =>
               /\ startup.pc = "error"
               /\ startup.err = IF startup.hosts_readable
                                THEN "ValueError" ELSE "IOError"
    ELSE startup.err # "ValueError"

\* C18's case: the populated output directory alone has stopped a process
\* that was to train
C18_Witness ==
    /\ startup.pc = "error"
    /\ startup.err = "ValueError"
    /\ ~WrongDecoderObjective
    /\ ~NoEvalFile
    /\ startup.output_dir_populated
    /\ startup.do_train
    /\ NothingSetUp

\* ------------------------------------- the claims on the gradient buffers

\* C19, as claimed: every optimizer step applies gradients accumulated from
\* exactly gradient_accumulation_steps batches, and the gradients are zero at
\* the first batch of every file and of every epoch (nothing is carried over
\* a file boundary).
C19_StepAppliesExactlyGBatches ==
    \A r \in Procs :
        /\ proc[r].opt_batches \in {0, args.gradient_accumulation_steps}
        /\ (proc[r].pc = "batch_loop" /\ proc[r].step = 0) => proc[r].grad_acc = 0

\* ------------------------------------------------ the claims on the modes

\* C20, as claimed: on storage that never fails, save_checkpoint for the
\* same step leaves the same file names in checkpoint-encoder-S,
\* checkpoint-decoder-S and checkpoint-full-S in strict mode and in resilient
\* mode.
C20_ModesLeaveSameNames ==
    \A r \in Procs :
        (prior_run.taken /\ proc[r].pc = "done") => Names = prior_run.names

\* ---------------------------------------- the claims on the pushed weight

\* the composite record that the save of step global_step has written
FullRecord(global_step) ==
    {f \in files : /\ f.dir = Dir("full", global_step)
                   /\ f.name = "training.bin"
                   /\ f.whole}

\* C21: with the schedule enabled, a periodic save at global_step = S writes
\* a composite record whose iter is S and whose beta is the weight applied to
\* the last forward pass before the save, the one looked up at S - 1
\* (beta_t_list[S-1], or 1.0 past the end of the list) and not the one of S.
C21_SavedWeightLagsOneStep ==
    \A r \in Procs :
        (args.use_beta_schedule /\ proc[r].pc = "train_after_save") =>
            LET S == proc[r].global_step
            IN /\ proc[r].save_step = S
               /\ proc[r].fwd.global_step = S - 1
               /\ FullRecord(S) # {}
               /\ \A f \in FullRecord(S) :
                     /\ f.iter = S
                     /\ f.beta = proc[r].fwd.beta
                     /\ f.beta = IF S - 1 >= Len(beta_t_list) THEN WeightUnit
                                 ELSE beta_t_list[S]

\* C21's case: the weights of steps S - 1 and S differ, and the record of
\* the save at S holds the one of S - 1
C21_Witness ==
    \E r \in Procs :
        /\ args.use_beta_schedule
        /\ proc[r].pc = "train_after_save"
        /\ proc[r].global_step < Len(beta_t_list)
        /\ beta_t_list[proc[r].global_step] # beta_t_list[proc[r].global_step + 1]
        /\ \E f \in FullRecord(proc[r].global_step) :
              /\ f.iter = proc[r].global_step
              /\ f.beta = beta_t_list[proc[r].global_step]

\* C22: without the schedule the weight pushed into the model is 0 at every
\* forward pass, whatever args.beta is, so the mode is Disabled (0), or
\* Deterministic (2) if forced, and never FreeBit (1).
C22_NoScheduleWeightIsZero ==
    \A r \in Procs :
        ~args.use_beta_schedule =>
            /\ proc[r].beta_t = 0
            /\ proc[r].fb_mode # 1
            /\ proc[r].fwd.global_step >= 0 =>
                  /\ proc[r].fwd.beta = 0
                  /\ proc[r].model_beta = 0
                  /\ proc[r].fwd.fb_mode =
                        IF args.use_deterministic_connect THEN 2 ELSE 0
                  /\ proc[r].fb_mode = proc[r].fwd.fb_mode

\* C22's case: a positive beta is configured, the schedule is off, and the
\* forward pass at global_step 1 has run with weight 0 in Disabled mode
C22_Witness ==
    \E r \in Procs :
        /\ ~args.use_beta_schedule
        /\ ~args.use_deterministic_connect
        /\ args.beta > 0
        /\ proc[r].fwd.global_step = 1
        /\ proc[r].fwd.beta = 0
        /\ proc[r].fwd.fb_mode = 0
====
